---- MODULE Spec2Model ----
(***************************************************************************)
(* A model of the stock-analysis backend: the risk scorer                  *)
(* (app.py calculate_risk_score), the news and social fetchers              *)
(* (data_fetcher.py), the catalyst / risk thesis generators                 *)
(* (llm_prompts.py) and the /analyze request handler (app.py                *)
(* analyze_ticker).                                                         *)
(*                                                                          *)
(* Numbers.  Python floats are modelled by scaled integers:                 *)
(*   forward_pe, price_to_book, price_change_pct : whole units              *)
(*   beta                                        : tenths  (0.8 is 8)       *)
(*   market_cap                                  : units of $100M           *)
(*                                                 ($1B is 10, $500B 5000)  *)
(* An optional value (a dict entry that may be None) is the empty sequence  *)
(* when absent and the one-element sequence <<v>> when present.             *)
(***************************************************************************)
EXTENDS Integers, Sequences, FiniteSets, TLC

VARIABLES
    pc,                \* position of the running request / function
    calls,             \* external operations performed so far, in order
    response,          \* the HTTP outcome of analyze_ticker
    ticker,            \* request parameter
    anthropic_api_key, \* TRUE iff ANTHROPIC_API_KEY is configured
    twitter_bearer,    \* TRUE iff X_BEARER is configured
    yfinance_data,     \* the quote record returned by fetch_yfinance_data
    risk_score,        \* result of calculate_risk_score
    score_trace,       \* values of the local risk_score after each factor
    max_results,       \* argument of fetch_twitter_mentions
    api_response,      \* what the search API answered
    tweets,            \* result of fetch_twitter_mentions
    google_news,       \* result of fetch_google_news
    reuters_news,      \* all_articles of fetch_reuters_news
    feed_log,          \* per curated feed processed: did it fail, items added
    fetched_feed,      \* the local feed: what feedparser.parse returned last
    all_news,          \* merged, sorted news of analyze_ticker
    completion,        \* what the last completion call answered
    catalyst_bullets,  \* result of generate_catalyst_thesis
    risk_bullets       \* result of generate_risk_thesis

ctlVars == <<pc, calls, response>>
envVars == <<ticker, anthropic_api_key, twitter_bearer>>
scoreVars == <<risk_score, score_trace>>
socialVars == <<max_results, api_response, tweets>>
newsVars == <<google_news, reuters_news, feed_log, fetched_feed, all_news>>
thesisVars == <<completion, catalyst_bullets, risk_bullets>>
vars == <<pc, calls, response, ticker, anthropic_api_key, twitter_bearer,
          yfinance_data, risk_score, score_trace, max_results, api_response,
          tweets, google_news, reuters_news, feed_log, fetched_feed,
          all_news,
          completion, catalyst_bullets, risk_bullets>>

----------------------------------------------------------------------------
(* Generic helpers *)

None == <<>>

Some(v) == <<v>>

\* Python truthiness of an optional number: None and 0 are falsy.
Truthy(x) == x # None /\ x[1] # 0

Abs(x) == IF x < 0 THEN -x ELSE x

Min(a, b) == IF a < b THEN a ELSE b

Max(a, b) == IF a > b THEN a ELSE b

Range(s) == {s[i] : i \in 1..Len(s)}

\* Python's s[:k]
PyPrefix(s, k) ==
    IF k >= 0 THEN SubSeq(s, 1, Min(k, Len(s)))
    ELSE SubSeq(s, 1, Max(0, Len(s) + k))

\* What a call yields to its caller: a value, or an exception that
\* propagates.
Returned(v) == [raised |-> FALSE, value |-> v, type |-> "", error |-> <<>>]

Raises(type, msg) == [raised |-> TRUE, value |-> <<>>, type |-> type, error |-> msg]

NoResponse == [status |-> 0, detail |-> <<>>, body |-> <<>>]

\* app.py:234-236  except Exception as e: HTTPException(500, f"Internal
\* server error: {str(e)}")
InternalError(msg) ==
    [status |-> 500, detail |-> <<"Internal server error: ">> \o msg,
     body |-> <<>>]

\* app.py:230-232  except ValueError: HTTPException(404, ...)
NotFound(tkr) ==
    [status |-> 404, detail |-> <<"Ticker '", tkr, "' not found or has no data">>,
     body |-> <<>>]

\* The handler without its "except ValueError" clause.
ContinueNoNotFound(r, next_pc) ==
    IF r.raised
    THEN /\ pc' = "done"
         /\ response' = InternalError(r.error)
    ELSE /\ pc' = next_pc
         /\ UNCHANGED response

\* A call made inside the try block of analyze_ticker yielded r: the handler
\* goes on to next_pc, or the exception reaches app.py:230 or app.py:234.
Continue(r, next_pc) ==
    IF r.raised /\ r.type = "ValueError"
    THEN /\ pc' = "done"
         /\ response' = NotFound(ticker)
    ELSE IF r.raised
    THEN /\ pc' = "done"
         /\ response' = InternalError(r.error)
    ELSE /\ pc' = next_pc
         /\ UNCHANGED response

\* An entry of the log of external operations; outcome is "ok", "error" or
\* "empty_history".
Call(op, arg, outcome) == [op |-> op, arg |-> arg, outcome |-> outcome]

Failed(b) == IF b THEN "error" ELSE "ok"

----------------------------------------------------------------------------
(* Risk scorer: app.py calculate_risk_score *)

Baseline == 3

MegaCapLimit == 5000

\* app.py:42  is_mega_cap = market_cap and market_cap > 500_000_000_000
is_mega_cap(market_cap) == Truthy(market_cap) /\ market_cap[1] > MegaCapLimit

\* app.py:41-63  Factor 1: forward P/E
ForwardPEFactor(forward_pe, market_cap) ==
    IF ~Truthy(forward_pe) THEN 0
    ELSE LET pe == forward_pe[1] IN
         IF is_mega_cap(market_cap)
         THEN IF pe > 100 THEN 3
              ELSE IF pe > 70 THEN 2
              ELSE IF pe > 45 THEN 1
              ELSE IF pe < 20 THEN -1
              ELSE 0
         ELSE IF pe > 80 THEN 3
              ELSE IF pe > 50 THEN 2
              ELSE IF pe > 35 THEN 1
              ELSE IF pe < 15 THEN -1
              ELSE 0

\* app.py:66-71  Factor 2: price-to-book
PriceToBookFactor(price_to_book) ==
    IF ~Truthy(price_to_book) THEN 0
    ELSE IF price_to_book[1] > 40 THEN 2
    ELSE IF price_to_book[1] > 25 THEN 1
    ELSE 0

\* app.py:74-81  Factor 3: beta (tenths)
BetaFactor(beta) ==
    IF ~Truthy(beta) THEN 0
    ELSE IF beta[1] > 25 THEN 2
    ELSE IF beta[1] > 20 THEN 1
    ELSE IF beta[1] < 8 THEN -1
    ELSE 0

\* app.py:84-89  Factor 4: recent price volatility
VolatilityFactorNoReward(price_change_pct) ==
    IF Abs(price_change_pct) > 20 THEN 2
    ELSE IF Abs(price_change_pct) > 15 THEN 1
    ELSE 0

VolatilityFactor(price_change_pct) ==
    IF Abs(price_change_pct) > 20 THEN 2
    ELSE IF Abs(price_change_pct) > 15 THEN 1
    ELSE IF Abs(price_change_pct) < 3 THEN -1
    ELSE 0

\* app.py:92-102  Factor 5: market cap (units of $100M)
MarketCapFactorNoMega(market_cap) ==
    IF ~Truthy(market_cap) THEN 0
    ELSE IF market_cap[1] < 10 THEN 3
    ELSE IF market_cap[1] < 50 THEN 2
    ELSE IF market_cap[1] < 200 THEN 1
    ELSE IF market_cap[1] > 1000 THEN -1
    ELSE 0

MarketCapFactor(market_cap) ==
    IF ~Truthy(market_cap) THEN 0
    ELSE IF market_cap[1] < 10 THEN 3
    ELSE IF market_cap[1] < 50 THEN 2
    ELSE IF market_cap[1] < 200 THEN 1
    ELSE IF market_cap[1] > MegaCapLimit THEN -2
    ELSE IF market_cap[1] > 1000 THEN -1
    ELSE 0

\* The successive values of the local variable risk_score (app.py:36-102).
RiskTrace(yf, price_change_pct) ==
    LET s0 == Baseline
        s1 == s0 + ForwardPEFactor(yf.forward_pe, yf.market_cap)
        s2 == s1 + PriceToBookFactor(yf.price_to_book)
        s3 == s2 + BetaFactor(yf.beta)
        s4 == s3 + VolatilityFactor(price_change_pct)
        s5 == s4 + MarketCapFactor(yf.market_cap)
    IN  <<s0, s1, s2, s3, s4, s5>>

\* app.py:105  return max(1, min(10, risk_score))
ClampNoUpper(s) == Max(1, s)

Clamp(s) == Max(1, Min(10, s))

calculate_risk_score(yf, price_change_pct) ==
    Clamp(RiskTrace(yf, price_change_pct)[6])

----------------------------------------------------------------------------
(* Inputs of the scorer *)

ForwardPEs == {None} \cup {Some(v) : v \in {-5, 0, 10, 14, 15, 19, 20, 35,
                  36, 45, 46, 50, 51, 70, 71, 80, 81, 100, 101, 120, 1000}}

PriceToBooks == {None} \cup {Some(v) : v \in {0, 10, 25, 26, 40, 41}}

Betas == {None} \cup {Some(v) : v \in {0, 7, 8, 20, 21, 25, 26, 100}}

MarketCaps == {None} \cup {Some(v) : v \in {0, 5, 10, 49, 50, 200, 1000,
                  1001, 5000, 5001, 20000}}

PriceChanges == {-25, -16, -3, -2, 0, 2, 3, 15, 16, 20, 21}

QuoteRecord(pct, pe, pb, b, mc) ==
    [price_change_pct |-> pct, forward_pe |-> pe, price_to_book |-> pb,
     beta |-> b, market_cap |-> mc]

NoQuote == QuoteRecord(0, None, None, None, None)

ScoreInputs ==
    {QuoteRecord(pct, pe, pb, b, mc) :
        pct \in PriceChanges, pe \in ForwardPEs, pb \in PriceToBooks,
        b \in Betas, mc \in MarketCaps}


EnvIdle ==
    /\ ticker = "ACME"
    /\ anthropic_api_key = TRUE
    /\ twitter_bearer = TRUE

ScoreIdle ==
    /\ risk_score = 0
    /\ score_trace = <<>>

SocialIdle ==
    /\ max_results = 0
    /\ api_response = [kind |-> "none", status |-> 0, data |-> <<>>]
    /\ tweets = <<>>

NewsIdle ==
    /\ google_news = <<>>
    /\ reuters_news = <<>>
    /\ feed_log = <<>>
    /\ fetched_feed = None
    /\ all_news = <<>>

NoCompletion == [kind |-> "none", text |-> <<>>]

ThesisIdle ==
    /\ completion = NoCompletion
    /\ catalyst_bullets = <<>>
    /\ risk_bullets = <<>>

InitScore ==
    /\ pc = "score"
    /\ calls = <<>>
    /\ response = NoResponse
    /\ EnvIdle
    /\ yfinance_data \in ScoreInputs
    /\ ScoreIdle
    /\ SocialIdle
    /\ NewsIdle
    /\ ThesisIdle

\* One call of calculate_risk_score(yfinance_data, price_change_pct).
CalcRiskScore ==
    /\ pc = "score"
    /\ score_trace' = RiskTrace(yfinance_data, yfinance_data.price_change_pct)
    /\ risk_score' = calculate_risk_score(yfinance_data,
                                          yfinance_data.price_change_pct)
    /\ pc' = "scored"
    /\ UNCHANGED <<calls, response, yfinance_data>>
    /\ UNCHANGED envVars
    /\ UNCHANGED socialVars
    /\ UNCHANGED newsVars
    /\ UNCHANGED thesisVars

NextScore == CalcRiskScore

SpecScore == InitScore /\ [][NextScore]_vars

----------------------------------------------------------------------------
(* Claims about the risk scorer *)

Scored == pc = "scored"

\* C1: for every combination of present or absent valuation fields and every
\* price_change_pct, calculate_risk_score returns an integer r with
\* 1 <= r <= 10.
C1_ScoreInRange ==
    Scored => risk_score \in 1..10

\* C1 witness: extreme inputs (P/E = 1000, beta = 10.0) were scored, the
\* unclamped sum exceeded 10 and the result is the upper clamp.
C1_Witness ==
    /\ Scored
    /\ yfinance_data.forward_pe = Some(1000)
    /\ yfinance_data.beta = Some(100)
    /\ score_trace[6] > 10
    /\ risk_score = 10

AllAbsentFlat ==
    /\ yfinance_data.forward_pe = None
    /\ yfinance_data.price_to_book = None
    /\ yfinance_data.beta = None
    /\ yfinance_data.market_cap = None
    /\ yfinance_data.price_change_pct = 0

\* C2 (as stated): with every valuation field absent and price_change_pct
\* = 0.0 the scorer returns exactly 3, the baseline, no adjustment firing.
C2_Original ==
    (Scored /\ AllAbsentFlat) =>
        /\ risk_score = 3
        /\ \A i \in 1..5 : score_trace[i + 1] = score_trace[i]

\* C2 (amended): with every valuation field absent and price_change_pct =
\* 0.0 the scorer returns exactly 2: the baseline 3 with the single -1
\* stability reward of the volatility factor (|pct| < 3); no valuation
\* factor fires.
C2_FlatAbsentScoresTwo ==
    (Scored /\ AllAbsentFlat) =>
        /\ risk_score = 2
        /\ score_trace = <<3, 3, 3, 3, 2, 2>>

C2_Witness ==
    Scored /\ AllAbsentFlat /\ risk_score = 2

\* The thresholds of the claim, written out.
C3_MegaTable(pe) ==
    IF pe > 100 THEN 3 ELSE IF pe > 70 THEN 2 ELSE IF pe > 45 THEN 1
    ELSE IF pe < 20 THEN -1 ELSE 0

C3_NonMegaTable(pe) ==
    IF pe > 80 THEN 3 ELSE IF pe > 50 THEN 2 ELSE IF pe > 35 THEN 1
    ELSE IF pe < 15 THEN -1 ELSE 0

\* C3: for every forward_pe > 0 the forward-P/E adjustment uses the mega-cap
\* thresholds exactly when market_cap > $500B and the non-mega thresholds
\* otherwise (also when market_cap is absent); the market-cap factor
\* contributes -2 when market_cap > $500B; so market_cap = $2T with
\* forward_pe = 120 contributes exactly +1 in total before the clamp.
C3_MegaCapBranch ==
    Scored =>
        LET pe == yfinance_data.forward_pe
            mc == yfinance_data.market_cap
            peAdj == score_trace[2] - score_trace[1]
            capAdj == score_trace[6] - score_trace[5]
            mega == mc # None /\ mc[1] > 5000
        IN  /\ (pe # None /\ pe[1] > 0) =>
                 peAdj = IF mega THEN C3_MegaTable(pe[1])
                                 ELSE C3_NonMegaTable(pe[1])
            /\ mega => capAdj = -2
            /\ (mc = Some(20000) /\ pe = Some(120)) => peAdj + capAdj = 1

\* C3 witness: market_cap = $2T and forward_pe = 120 were scored, +3 and -2.
C3_Witness ==
    /\ Scored
    /\ yfinance_data.market_cap = Some(20000)
    /\ yfinance_data.forward_pe = Some(120)
    /\ score_trace[2] - score_trace[1] = 3
    /\ score_trace[6] - score_trace[5] = -2

----------------------------------------------------------------------------
(* Social mentions: data_fetcher.py fetch_twitter_mentions *)

MaxPosts == 3

\* data_fetcher.py:162  max(10, min(max_results, 100))
PageSize(k) == Max(10, Min(k, 100))

\* A post of the search API: "public_metrics" counts may be missing.
ApiPost(i, lc, rc) == [id |-> i, like_count |-> lc, retweet_count |-> rc]

LikeCounts == {None, Some(1), Some(2)}

RetweetCounts == {None, Some(1)}

ApiPostLists ==
    UNION {[1..n -> LikeCounts \X RetweetCounts] : n \in 0..MaxPosts}

ApiData(m) == [i \in 1..Len(m) |-> ApiPost(i, m[i][1], m[i][2])]

\* What requests.get can yield: an exception, a non-200 status, or a page.
ApiResponses(k) ==
    {[kind |-> "exception", status |-> 0, data |-> <<>>],
     [kind |-> "http", status |-> 429, data |-> <<>>]}
    \cup {[kind |-> "http", status |-> 200, data |-> ApiData(m)] :
            m \in {x \in ApiPostLists : Len(x) <= PageSize(k)}}

\* data_fetcher.py:183-184  metrics.get("like_count", 0)
GetOr(x, default) == IF x = None THEN default ELSE x[1]

\* data_fetcher.py:179-187
TweetOf(post) ==
    [tweet_id |-> post.id,
     likes |-> GetOr(post.like_count, 0),
     retweets |-> GetOr(post.retweet_count, 0)]

Engagement(t) == t.likes + t.retweets

MoreEngaged(a, b) == Engagement(a) > Engagement(b)

\* A sort that orders ascending and then reverses the list: descending, but
\* posts of equal engagement end in reverse of their original order.
SortTweetsUnstable(ts) ==
    LET n == Len(ts)
        pos(i) == 1 + Cardinality({j \in 1..n :
                        \/ MoreEngaged(ts[j], ts[i])
                        \/ (j > i /\ ~MoreEngaged(ts[i], ts[j]))})
    IN  [p \in 1..n |-> ts[CHOOSE i \in 1..n : pos(i) = p]]

\* data_fetcher.py:189  tweets.sort(key=..., reverse=True): descending by
\* key, posts of equal key keep their original relative order.
SortTweets(ts) ==
    LET n == Len(ts)
        pos(i) == 1 + Cardinality({j \in 1..n :
                        \/ MoreEngaged(ts[j], ts[i])
                        \/ (j < i /\ ~MoreEngaged(ts[i], ts[j]))})
    IN  [p \in 1..n |-> ts[CHOOSE i \in 1..n : pos(i) = p]]

\* data_fetcher.py:152-195
fetch_twitter_mentions(resp, k) ==
    IF resp.kind = "exception" THEN Returned(<<>>)
    ELSE IF resp.status # 200 THEN Returned(<<>>)
    ELSE Returned(PyPrefix(SortTweets([i \in 1..Len(resp.data) |->
                                          TweetOf(resp.data[i])]), k))

\* One call of fetch_twitter_mentions(ticker, bearer, k), the API's answer
\* drawn from responses.
TwitterCall(k, responses, next_pc) ==
    \E resp \in responses :
        LET r == fetch_twitter_mentions(resp, k) IN
        /\ api_response' = resp
        /\ tweets' = r.value
        /\ calls' = Append(calls, Call("social", PageSize(k),
                   Failed(resp.kind = "exception" \/ resp.status # 200)))
        /\ Continue(r, next_pc)

RequestedCounts == (1..MaxPosts) \cup {5, 100}

InitTweets ==
    /\ pc = "social"
    /\ calls = <<>>
    /\ response = NoResponse
    /\ EnvIdle
    /\ yfinance_data = NoQuote
    /\ ScoreIdle
    /\ max_results \in RequestedCounts
    /\ api_response = [kind |-> "none", status |-> 0, data |-> <<>>]
    /\ tweets = <<>>
    /\ NewsIdle
    /\ ThesisIdle

\* One call of fetch_twitter_mentions(ticker, bearer, max_results).
FetchTwitterMentions ==
    /\ pc = "social"
    /\ TwitterCall(max_results, ApiResponses(max_results), "fetched")
    /\ UNCHANGED <<yfinance_data, max_results>>
    /\ UNCHANGED envVars
    /\ UNCHANGED scoreVars
    /\ UNCHANGED newsVars
    /\ UNCHANGED thesisVars

NextTweets == FetchTwitterMentions

SpecTweets == InitTweets /\ [][NextTweets]_vars

----------------------------------------------------------------------------
(* Claims about the social fetcher *)

\* a ranks before b: more engagement, or equal engagement and earlier in the
\* API's order.
C9_RanksBefore(a, b) ==
    \/ a.likes + a.retweets > b.likes + b.retweets
    \/ (a.likes + a.retweets = b.likes + b.retweets /\ a.tweet_id < b.tweet_id)

\* C9: for every requested count k in 1..100 and every page of n posts
\* answered by the search API (asked with page size max(10, min(k, 100))),
\* fetch_twitter_mentions returns exactly min(k, n) posts: the first
\* min(k, n) of the page ordered by descending likes+retweets, posts of
\* equal engagement in their API order.
C9_TopKByEngagement ==
    (pc = "fetched" /\ api_response.status = 200 /\ max_results \in 1..100) =>
        LET n == Len(api_response.data)
            k == max_results
            fetched == {[tweet_id |-> i,
                         likes |-> IF api_response.data[i].like_count = <<>>
                                   THEN 0
                                   ELSE api_response.data[i].like_count[1],
                         retweets |-> IF api_response.data[i].retweet_count = <<>>
                                      THEN 0
                                      ELSE api_response.data[i].retweet_count[1]] :
                        i \in 1..n}
        IN  /\ calls[Len(calls)] = [op |-> "social", arg |-> IF k < 10 THEN 10 ELSE k,
                                 outcome |-> "ok"]
            /\ Len(tweets) = IF k < n THEN k ELSE n
            /\ \A i \in 1..Len(tweets) : tweets[i] \in fetched
            /\ \A i, j \in 1..Len(tweets) :
                  i < j => C9_RanksBefore(tweets[i], tweets[j])
            /\ \A p \in fetched :
                  (\A i \in 1..Len(tweets) : tweets[i] # p) =>
                      \A i \in 1..Len(tweets) : C9_RanksBefore(tweets[i], p)

\* C9 witness: more posts than requested, with a tie in engagement among the
\* returned posts and a post cut off.
C9_Witness ==
    /\ pc = "fetched"
    /\ api_response.status = 200
    /\ max_results = 2
    /\ Len(api_response.data) = 3
    /\ Len(tweets) = 2
    /\ tweets[1].likes + tweets[1].retweets = tweets[2].likes + tweets[2].retweets
    /\ tweets[1].tweet_id = 2
    /\ tweets[2].tweet_id = 3

----------------------------------------------------------------------------
(* News: data_fetcher.py fetch_google_news, fetch_reuters_news *)
(* Time is counted in ticks of 12 hours.  A feed timestamp is a local clock  *)
(* reading with a UTC offset (or none); the instant it denotes is           *)
(* local - offset.                                                           *)

MaxTick == 3

MaxEntries == 2

\* data_fetcher.py:68  cutoff_date = now(utc) - timedelta(days), as an instant
Cutoff == 2

Offsets == {-1, 0, 1}

\* entry.published as the feed gives it
PubAbsent == [kind |-> "absent", local |-> 0, off |-> 0]

PubBad == [kind |-> "bad", local |-> 0, off |-> 0]

PubNaive(t) == [kind |-> "naive", local |-> t, off |-> 0]

PubAware(t, o) == [kind |-> "aware", local |-> t, off |-> o]

\* date_parser.parse(entry.published), for a parseable string
ParseDate(pub) ==
    [local |-> pub.local,
     tzinfo |-> IF pub.kind = "naive" THEN None ELSE Some(pub.off)]

\* A naive timestamp read in a fixed local zone one tick east of UTC.
AssumeLocalZone(dt) ==
    IF dt.tzinfo = None THEN [dt EXCEPT !.tzinfo = Some(1)] ELSE dt

\* data_fetcher.py:78-79  published.replace(tzinfo=timezone.utc)
AssumeUTC(dt) ==
    IF dt.tzinfo = None THEN [dt EXCEPT !.tzinfo = Some(0)] ELSE dt

\* The point in time an aware datetime denotes.
Instant(dt) == dt.local - dt.tzinfo[1]

\* published.isoformat(): "<local date and time><+hh:mm | -hh:mm>"
isoformat(dt) == [local |-> dt.local, off |-> dt.tzinfo[1]]

\* The point in time an ISO string denotes.
IsoInstant(iso) == iso.local - iso.off

\* Rank of the offset suffix in string order: "+00:00" < "+12:00" < "-12:00"
\* ('+' sorts before '-').
OffsetSuffixRank(o) == IF o >= 0 THEN o ELSE 100 - o

\* Python's a > b on two isoformat() strings: the local date-time prefix
\* decides, then the offset suffix.
IsoStringGreater(a, b) ==
    \/ a.local > b.local
    \/ (a.local = b.local /\ OffsetSuffixRank(a.off) > OffsetSuffixRank(b.off))

Entry(t, l, m, p) == [title |-> t, link |-> l, matches |-> m, published |-> p]

NewsItem(e, src) ==
    [title |-> e.title[1], link |-> e.link,
     published |-> isoformat(AssumeUTC(ParseDate(e.published))),
     source |-> src]

\* data_fetcher.py:72-93: the entry is kept unless it has no timestamp, the
\* timestamp does not parse, it is older than the cutoff, or building the
\* item raises (no title).
GoogleKeepsNoCutoff(e) ==
    /\ e.published.kind \notin {"absent", "bad"}
    /\ e.title # None

GoogleKeeps(e) ==
    /\ e.published.kind \notin {"absent", "bad"}
    /\ Instant(AssumeUTC(ParseDate(e.published))) >= Cutoff
    /\ e.title # None

\* data_fetcher.py:57-99
fetch_google_news(feed) ==
    IF feed.kind = "exception" THEN Returned(<<>>)
    ELSE LET kept == SelectSeq(feed.entries, GoogleKeeps)
         IN  Returned([i \in 1..Len(kept) |-> NewsItem(kept[i], "GNews")])

\* data_fetcher.py:119-143: one curated feed's entries, appended to acc until
\* an entry raises (no title, unparseable timestamp).
RECURSIVE ReutersScan(_, _, _)
ReutersScan(entries, i, acc) ==
    IF i > Len(entries) THEN [items |-> acc, failed |-> FALSE, at |-> 0]
    ELSE LET e == entries[i] IN
         IF e.title = None THEN [items |-> acc, failed |-> TRUE, at |-> i]
         ELSE IF ~e.matches THEN ReutersScan(entries, i + 1, acc)
         ELSE IF e.published.kind = "absent" THEN ReutersScan(entries, i + 1, acc)
         ELSE IF e.published.kind = "bad"
              THEN [items |-> acc, failed |-> TRUE, at |-> i]
         ELSE ReutersScan(entries, i + 1, Append(acc, NewsItem(e, "Reuters")))

\* data_fetcher.py:115-143: one iteration of "for feed_url in feeds"
ProcessReutersFeed(feed) ==
    IF feed.kind = "exception" THEN [items |-> <<>>, failed |-> TRUE, at |-> 0]
    ELSE ReutersScan(feed.entries, 1, <<>>)

\* data_fetcher.py:106-110
NumFeeds == 3

Feeds(pool, maxlen) ==
    {[kind |-> "exception", entries |-> <<>>]}
    \cup {[kind |-> "ok", entries |-> es] :
            es \in UNION {[1..n -> pool] : n \in 0..maxlen}}

\* app.py:172-173  all_news = google_news + reuters_news; all_news.sort(...)
ByPublishedString(a, b) == IsoStringGreater(a.published, b.published)

MergeNews(g, r) ==
    LET s == g \o r
        n == Len(s)
        pos(i) == 1 + Cardinality({j \in 1..n :
                        \/ ByPublishedString(s[j], s[i])
                        \/ (j < i /\ ~ByPublishedString(s[i], s[j]))})
    IN  [p \in 1..n |-> s[CHOOSE i \in 1..n : pos(i) = p]]

GooglePubs ==
    {PubAbsent, PubBad}
    \cup {PubNaive(t) : t \in 0..MaxTick}
    \cup {PubAware(t, o) : t \in 0..MaxTick, o \in Offsets}

GoogleEntries ==
    {Entry(IF h THEN Some(l) ELSE None, l, TRUE, p) :
        h \in BOOLEAN, l \in {1, 2}, p \in GooglePubs}

ReutersPubs == {PubAbsent, PubBad, PubNaive(1), PubAware(MaxTick, 1)}

ReutersEntries ==
    {Entry(t, 3, m, p) : t \in {None, Some(3)}, m \in BOOLEAN, p \in ReutersPubs}

\* One call of fetch_google_news, the feed drawn from feeds.
GoogleNewsCall(feeds, next_pc) ==
    \E feed \in feeds :
        LET r == fetch_google_news(feed) IN
        /\ google_news' = r.value
        /\ calls' = Append(calls, Call("google_news", 0,
                                       Failed(feed.kind = "exception")))
        /\ Continue(r, next_pc)

\* One iteration of the feed loop of fetch_reuters_news, the feed drawn from
\* feeds.
ReutersFeedCall(feeds) ==
    /\ Len(feed_log) < NumFeeds
    /\ \E feed \in feeds :
          LET r == ProcessReutersFeed(feed) IN
          /\ reuters_news' = reuters_news \o r.items
          /\ feed_log' = Append(feed_log,
                                [failed |-> r.failed, failed_at |-> r.at,
                                 added |-> Len(r.items)])
    /\ calls' = IF feed_log = <<>>
                THEN Append(calls, Call("reuters_news", 0, "ok"))
                ELSE calls

InitGoogle ==
    /\ pc = "gnews"
    /\ calls = <<>>
    /\ response = NoResponse
    /\ EnvIdle
    /\ yfinance_data = NoQuote
    /\ ScoreIdle
    /\ SocialIdle
    /\ NewsIdle
    /\ ThesisIdle

FetchGoogleNews ==
    /\ pc = "gnews"
    /\ \E feed \in Feeds(GoogleEntries, MaxEntries) :
          /\ GoogleNewsCall({feed}, "returned")
          /\ fetched_feed' = Some(feed)
    /\ UNCHANGED <<yfinance_data, reuters_news, feed_log, all_news>>
    /\ UNCHANGED envVars
    /\ UNCHANGED scoreVars
    /\ UNCHANGED socialVars
    /\ UNCHANGED thesisVars

NextGoogle == FetchGoogleNews

SpecGoogle == InitGoogle /\ [][NextGoogle]_vars

InitReuters ==
    /\ pc = "rnews"
    /\ calls = <<>>
    /\ response = NoResponse
    /\ EnvIdle
    /\ yfinance_data = NoQuote
    /\ ScoreIdle
    /\ SocialIdle
    /\ NewsIdle
    /\ ThesisIdle

FetchReutersFeed ==
    /\ pc = "rnews"
    /\ \E feed \in Feeds(ReutersEntries, MaxEntries) :
          /\ ReutersFeedCall({feed})
          /\ fetched_feed' = Some(feed)
    /\ pc' = IF Len(feed_log) + 1 = NumFeeds THEN "returned" ELSE "rnews"
    /\ UNCHANGED <<response, yfinance_data, google_news, all_news>>
    /\ UNCHANGED envVars
    /\ UNCHANGED scoreVars
    /\ UNCHANGED socialVars
    /\ UNCHANGED thesisVars

NextReuters == FetchReutersFeed

SpecReuters == InitReuters /\ [][NextReuters]_vars

\* Both news sources, each started on its own: the state graphs of
\* fetch_google_news and of fetch_reuters_news side by side.
InitNews == InitGoogle \/ InitReuters

NextNews ==
    \/ FetchGoogleNews
    \/ FetchReutersFeed

SpecNews == InitNews /\ [][NextNews]_vars

----------------------------------------------------------------------------
(* Claims about the news sources *)

\* C10: when processing of a single curated feed fails (an entry without a
\* title or with an unparseable timestamp, also after earlier entries of the
\* feed were accepted), that feed contributes zero items to the aggregated
\* news; the other feeds are unaffected and the aggregator returns a list.
C10_FailedFeedAddsNothing ==
    \A i \in 1..Len(feed_log) : feed_log[i].failed => feed_log[i].added = 0

\* The returned item is the one built from feed entry e, e carrying a title
\* and a timestamp that is present and parses; a timestamp without zone is
\* written out with the UTC offset.
C12_ItemOf(item, e) ==
    /\ e.published.kind \in {"naive", "aware"}
    /\ e.title # None
    /\ item.title = e.title[1]
    /\ item.link = e.link
    /\ item.published =
          [local |-> e.published.local,
           off |-> IF e.published.kind = "naive" THEN 0 ELSE e.published.off]

\* C12: no item returned by the broad-query source is published before the
\* cutoff (now - days); no item returned by either source comes from an
\* entry without a timestamp or with one that does not parse; a timestamp
\* without zone is read as UTC when compared with the cutoff (such an entry
\* at or after the cutoff in UTC is returned, one before it is not).
C12_ReturnedItemsAreDatedAndRecent ==
    /\ (fetched_feed # None /\ feed_log = <<>>) =>
          LET fed == fetched_feed[1].entries IN
          /\ \A k \in 1..Len(google_news) :
                /\ google_news[k].published.local
                      - google_news[k].published.off >= Cutoff
                /\ \E i \in 1..Len(fed) :
                      C12_ItemOf(google_news[k], fed[i])
          /\ \A i \in 1..Len(fed) :
                (/\ fed[i].published.kind = "naive"
                 /\ fed[i].title # None
                 /\ fed[i].published.local >= Cutoff) =>
                    \E k \in 1..Len(google_news) :
                        C12_ItemOf(google_news[k], fed[i])
    /\ feed_log # <<>> =>
          LET fed == fetched_feed[1].entries
              n == Len(reuters_news)
              added == feed_log[Len(feed_log)].added
          IN  \A k \in (n - added + 1)..n :
                  \E i \in 1..Len(fed) :
                      /\ fed[i].matches
                      /\ C12_ItemOf(reuters_news[k], fed[i])

\* C12 witness: the broad-query feed held an entry stamped exactly at the
\* cutoff without zone and an entry whose local time is at the cutoff but
\* whose zone puts it one tick before; only the first was returned.
C12_Witness ==
    /\ pc = "returned"
    /\ feed_log = <<>>
    /\ fetched_feed # None
    /\ fetched_feed[1].entries =
          <<Entry(Some(1), 1, TRUE, PubNaive(Cutoff)),
            Entry(Some(2), 2, TRUE, PubAware(Cutoff, 1))>>
    /\ Len(google_news) = 1
    /\ google_news[1].link = 1

----------------------------------------------------------------------------
(* Thesis generators: llm_prompts.py *)
(* A completion text is a sequence of one-character strings.                *)

MaxTextLen == 5

MaxNews == 11

NL == "\n"

\* Stands for the bullet character U+2022.
BulletDot == "*"

Chars == {"-", "0", "1", "[", "]", "x", " ", NL}

Digits == {"0", "1", "2", "3", "4", "5", "6", "7", "8", "9"}

Whitespace == {" ", NL}

DigitValue(c) ==
    CASE c = "0" -> 0 [] c = "1" -> 1 [] c = "2" -> 2 [] c = "3" -> 3
      [] c = "4" -> 4 [] c = "5" -> 5 [] c = "6" -> 6 [] c = "7" -> 7
      [] c = "8" -> 8 [] c = "9" -> 9

\* int(cite_num)
RECURSIVE ToInt(_)
ToInt(ds) ==
    IF ds = <<>> THEN 0
    ELSE 10 * ToInt(SubSeq(ds, 1, Len(ds) - 1)) + DigitValue(ds[Len(ds)])

\* str.lstrip(chars)
RECURSIVE LStrip(_, _)
LStrip(s, cs) ==
    IF s # <<>> /\ s[1] \in cs THEN LStrip(Tail(s), cs) ELSE s

RECURSIVE RStrip(_, _)
RStrip(s, cs) ==
    IF s # <<>> /\ s[Len(s)] \in cs
    THEN RStrip(SubSeq(s, 1, Len(s) - 1), cs) ELSE s

\* str.strip()
Strip(s) == RStrip(LStrip(s, Whitespace), Whitespace)

\* str.split("\n")
RECURSIVE SplitLines(_)
SplitLines(t) ==
    IF \A i \in 1..Len(t) : t[i] # NL THEN <<t>>
    ELSE LET i == CHOOSE k \in 1..Len(t) :
                      t[k] = NL /\ \A m \in 1..(k - 1) : t[m] # NL
         IN  <<SubSeq(t, 1, i - 1)>> \o SplitLines(SubSeq(t, i + 1, Len(t)))

\* llm_prompts.py:92  line and (line.startswith("-") or ... or line[0].isdigit())
IsBulletLine(line) ==
    line # <<>> /\ (line[1] = "-" \/ line[1] = BulletDot \/ line[1] \in Digits)

\* llm_prompts.py:93
CleanLine(line) ==
    Strip(LStrip(LStrip(line, {"-", BulletDot}), Digits \cup {"."}))

\* The end of a match of \[(\d+)\] that starts at i, or 0.
CitationEnd(s, i) ==
    IF s[i] # "[" THEN 0
    ELSE LET stops == {k \in (i + 1)..Len(s) : s[k] \notin Digits}
         IN  IF stops = {} THEN 0
             ELSE LET j == CHOOSE k \in stops : \A m \in stops : k <= m
                  IN  IF j > i + 1 /\ s[j] = "]" THEN j ELSE 0

\* llm_prompts.py:97  re.findall(r'\[(\d+)\]', clean_line), scanning from i
RECURSIVE FindCitations(_, _)
FindCitations(s, i) ==
    IF i > Len(s) THEN <<>>
    ELSE LET j == CitationEnd(s, i) IN
         IF j = 0 THEN FindCitations(s, i + 1)
         ELSE <<ToInt(SubSeq(s, i + 1, j - 1))>> \o FindCitations(s, j + 1)

\* llm_prompts.py:99  re.sub(r'\[\d+\]', '', clean_line), scanning from i
RECURSIVE RemoveCitations(_, _)
RemoveCitations(s, i) ==
    IF i > Len(s) THEN <<>>
    ELSE LET j == CitationEnd(s, i) IN
         IF j = 0 THEN <<s[i]>> \o RemoveCitations(s, i + 1)
         ELSE RemoveCitations(s, j + 1)

SourceOf(article) ==
    [title |-> article.title, link |-> article.link, source |-> article.source]

\* The same loop with the bound taken from the whole list, not the ten
\* items shown.
RECURSIVE ResolveCitationsUntruncated(_, _)
ResolveCitationsUntruncated(cites, news) ==
    IF cites = <<>> THEN <<>>
    ELSE LET idx == cites[1] - 1
             rest == ResolveCitationsUntruncated(Tail(cites), news)
         IN  IF 0 <= idx /\ idx < Len(news)
             THEN <<SourceOf(news[idx + 1])>> \o rest
             ELSE rest

\* llm_prompts.py:102-111
RECURSIVE ResolveCitations(_, _)
ResolveCitations(cites, news) ==
    IF cites = <<>> THEN <<>>
    ELSE LET idx == cites[1] - 1
             rest == ResolveCitations(Tail(cites), news)
         IN  IF 0 <= idx /\ idx < Len(PyPrefix(news, 10))
             THEN <<SourceOf(news[idx + 1])>> \o rest
             ELSE rest

\* llm_prompts.py:86-93: the stripped lines that become bullets
BulletLines(text) ==
    LET raw == SplitLines(Strip(text))
        lines == [i \in 1..Len(raw) |-> Strip(raw[i])]
        Kept(line) == IsBulletLine(line) /\ CleanLine(line) # <<>>
    IN  SelectSeq(lines, Kept)

\* llm_prompts.py:94-116
CitedBullet(line, news) ==
    LET clean == CleanLine(line)
    IN  [text |-> Strip(RemoveCitations(clean, 1)),
         sources |-> ResolveCitations(FindCitations(clean, 1), news)]

ErrorText(c) == <<"Error generating analysis: ", c.kind>>

\* llm_prompts.py:17-122; c is what client.messages.create yields: an
\* exception, a response without content ("malformed"), or a text.
generate_catalyst_thesis(news, c) ==
    IF c.kind # "ok"
    THEN Returned(<<[text |-> ErrorText(c), sources |-> <<>>]>>)
    ELSE LET ls == BulletLines(c.text)
         IN  Returned([i \in 1..Len(ls) |-> CitedBullet(ls[i], news)])

\* llm_prompts.py:125-198
RiskThesisUncaught(c) ==
    IF c.kind # "ok" THEN Raises("Exception", <<c.kind>>)
    ELSE LET ls == BulletLines(c.text)
         IN  Returned([i \in 1..Len(ls) |-> CleanLine(ls[i])])

generate_risk_thesis(c) ==
    IF c.kind # "ok" THEN Returned(<<ErrorText(c)>>)
    ELSE LET ls == BulletLines(c.text)
         IN  Returned([i \in 1..Len(ls) |-> CleanLine(ls[i])])

\* llm_prompts.py:31, 47: the number of news items shown in the prompt
ShownCount(news) == Len(PyPrefix(news, 10))

Completions(texts) ==
    {[kind |-> "exception", text |-> <<>>], [kind |-> "malformed", text |-> <<>>]}
    \cup {[kind |-> "ok", text |-> t] : t \in texts}

AllTexts == UNION {[1..n -> Chars] : n \in 0..MaxTextLen}

\* One call of generate_catalyst_thesis on all_news.
CatalystCall(cs, next_pc) ==
    \E c \in cs :
        LET r == generate_catalyst_thesis(all_news, c) IN
        /\ completion' = c
        /\ catalyst_bullets' = r.value
        /\ calls' = Append(calls, Call("catalyst", ShownCount(all_news),
                                       Failed(c.kind # "ok")))
        /\ Continue(r, next_pc)

\* One call of generate_risk_thesis.
RiskCall(cs, next_pc) ==
    \E c \in cs :
        LET r == generate_risk_thesis(c) IN
        /\ completion' = c
        /\ risk_bullets' = r.value
        /\ calls' = Append(calls, Call("risk", 0, Failed(c.kind # "ok")))
        /\ Continue(r, next_pc)

\* A news list of n distinct articles.
NewsList(n) ==
    [i \in 1..n |->
        [title |-> i, link |-> 100 + i,
         published |-> [local |-> MaxTick, off |-> 0],
         source |-> IF i % 2 = 1 THEN "GNews" ELSE "Reuters"]]

NewsLens == {0, 1, MaxNews - 1, MaxNews}

InitCite ==
    /\ pc = "catalyst"
    /\ calls = <<>>
    /\ response = NoResponse
    /\ EnvIdle
    /\ yfinance_data = NoQuote
    /\ ScoreIdle
    /\ SocialIdle
    /\ google_news = <<>>
    /\ reuters_news = <<>>
    /\ feed_log = <<>>
    /\ fetched_feed = None
    /\ all_news \in {NewsList(n) : n \in NewsLens}
    /\ ThesisIdle

GenerateCatalyst ==
    /\ pc = "catalyst"
    /\ CatalystCall(Completions(AllTexts), "generated")
    /\ UNCHANGED <<yfinance_data, risk_bullets>>
    /\ UNCHANGED envVars
    /\ UNCHANGED scoreVars
    /\ UNCHANGED socialVars
    /\ UNCHANGED newsVars

NextCite == GenerateCatalyst

SpecCite == InitCite /\ [][NextCite]_vars

----------------------------------------------------------------------------
(* Claims about citation resolution *)

\* The characters i..j of line are a token "[" digits "]" whose digits are
\* the decimal notation of n (leading zeros allowed).
C4_TokenAt(line, i, j, n) ==
    /\ i + 1 < j
    /\ line[i] = "["
    /\ line[j] = "]"
    /\ \A k \in (i + 1)..(j - 1) : line[k] \in Digits
    /\ n \div (10 ^ (j - i - 1)) = 0
    /\ \A k \in 0..(j - i - 2) :
          DigitValue(line[j - 1 - k]) = (n \div (10 ^ k)) % 10

C4_HasToken(line, n) ==
    \E i, j \in 1..Len(line) : C4_TokenAt(line, i, j, n)

\* C4: for every completion response and every news list, each source of
\* each bullet returned by generate_catalyst_thesis is the {title, link,
\* source} of the news item at 1-based position n among the first
\* min(10, len(news)) items, for some [n] token on that bullet's line; a
\* token whose n is 0 or beyond the items shown adds no source and raises no
\* error, so a bullet citing only out-of-range numbers has no sources.
C4_CitationsResolveToShownItems ==
    (pc = "generated" /\ completion.kind = "ok") =>
        LET shown == IF Len(all_news) < 10 THEN Len(all_news) ELSE 10
            lines == BulletLines(completion.text)
        IN  /\ Len(catalyst_bullets) = Len(lines)
            /\ \A b \in 1..Len(catalyst_bullets) :
                  /\ \A s \in 1..Len(catalyst_bullets[b].sources) :
                        \E n \in 1..shown :
                            /\ C4_HasToken(lines[b], n)
                            /\ catalyst_bullets[b].sources[s] =
                                 [title |-> all_news[n].title,
                                  link |-> all_news[n].link,
                                  source |-> all_news[n].source]
                  /\ (\A n \in 1..shown : ~C4_HasToken(lines[b], n)) =>
                        catalyst_bullets[b].sources = <<>>

\* C4 witness: one item was shown, the bullet line cites [11] only, and the
\* bullet was produced with no source.
C4_Witness ==
    /\ pc = "generated"
    /\ completion = [kind |-> "ok", text |-> <<"-", "[", "1", "1", "]">>]
    /\ Len(all_news) = 1
    /\ catalyst_bullets = <<[text |-> <<>>, sources |-> <<>>]>>

----------------------------------------------------------------------------
(* The request handler: app.py analyze_ticker *)

MaxOrchEntries == 2

Tickers == {"ACME", "ZZZZ"}

\* app.py:150-154: the raised HTTPException, str() of which is
\* "<status>: <detail>"
ConfigCheckSkipped(key) == Returned(<<>>)

ConfigCheck(key) ==
    IF ~key
    THEN Raises("HTTPException", <<"500: ", "ANTHROPIC_API_KEY", " not configured">>)
    ELSE Returned(<<>>)

\* data_fetcher.py:23-54; answer is what Yahoo Finance yields: an exception,
\* an empty price history, or a quote.
fetch_yfinance_data(answer, tkr) ==
    IF answer.kind = "exception" THEN Raises("Exception", <<"upstream failure">>)
    ELSE IF answer.kind = "empty"
    THEN Raises("ValueError", <<"No historical data found for ", tkr>>)
    ELSE Returned(answer.data)

OrchQuotes ==
    {NoQuote,
     QuoteRecord(21, Some(120), Some(41), Some(26), Some(20000))}

QuoteAnswers ==
    {[kind |-> "exception", data |-> NoQuote], [kind |-> "empty", data |-> NoQuote]}
    \cup {[kind |-> "ok", data |-> q] : q \in OrchQuotes}

OrchGoogleEntries ==
    {Entry(Some(1), 1, TRUE, PubAware(MaxTick, 1)),
     Entry(Some(2), 2, TRUE, PubBad)}

OrchReutersEntries ==
    {Entry(Some(1), 1, TRUE, PubAware(MaxTick, 0)),
     Entry(Some(3), 3, TRUE, PubBad)}

OrchApiResponses ==
    {[kind |-> "exception", status |-> 0, data |-> <<>>],
     [kind |-> "http", status |-> 429, data |-> <<>>],
     [kind |-> "http", status |-> 200, data |-> <<>>],
     [kind |-> "http", status |-> 200,
      data |-> <<ApiPost(1, None, None), ApiPost(2, Some(2), Some(1))>>]}

OrchCatalystTexts == {<<"-", "x", "[", "1", "]">>, <<"x">>}

OrchRiskTexts == {<<"-", "x">>}

\* app.py:207-225
AnalysisResult ==
    [ticker |-> ticker,
     price_data |-> yfinance_data,
     news |-> PyPrefix(all_news, 15),
     tweets |-> PyPrefix(tweets, 1),
     catalyst_thesis |-> catalyst_bullets,
     risk_thesis |-> risk_bullets,
     risk_score |-> calculate_risk_score(yfinance_data,
                                         yfinance_data.price_change_pct)]

Init ==
    /\ pc = "start"
    /\ calls = <<>>
    /\ response = NoResponse
    /\ ticker \in Tickers
    /\ anthropic_api_key \in BOOLEAN
    /\ twitter_bearer \in BOOLEAN
    /\ yfinance_data = NoQuote
    /\ ScoreIdle
    /\ SocialIdle
    /\ NewsIdle
    /\ ThesisIdle

\* app.py:149-157
CheckConfig ==
    /\ pc = "start"
    /\ Continue(ConfigCheck(anthropic_api_key), "quote")
    /\ UNCHANGED <<calls, yfinance_data>>
    /\ UNCHANGED envVars
    /\ UNCHANGED scoreVars
    /\ UNCHANGED socialVars
    /\ UNCHANGED newsVars
    /\ UNCHANGED thesisVars

\* app.py:159-163
FetchQuote ==
    /\ pc = "quote"
    /\ \E answer \in QuoteAnswers :
          LET r == fetch_yfinance_data(answer, ticker) IN
          /\ yfinance_data' = IF r.raised THEN yfinance_data ELSE r.value
          /\ calls' = Append(calls,
                Call("quote", 0, IF answer.kind = "empty" THEN "empty_history"
                                 ELSE Failed(answer.kind = "exception")))
          /\ Continue(r, "gnews")
    /\ UNCHANGED envVars
    /\ UNCHANGED scoreVars
    /\ UNCHANGED socialVars
    /\ UNCHANGED newsVars
    /\ UNCHANGED thesisVars

\* app.py:165-167
FetchNewsGoogle ==
    /\ pc = "gnews"
    /\ GoogleNewsCall(Feeds(OrchGoogleEntries, MaxOrchEntries), "rnews")
    /\ UNCHANGED <<yfinance_data, reuters_news, feed_log, fetched_feed,
                   all_news>>
    /\ UNCHANGED envVars
    /\ UNCHANGED scoreVars
    /\ UNCHANGED socialVars
    /\ UNCHANGED thesisVars

\* app.py:169-173: one curated feed per step; after the last one the two
\* lists are concatenated and sorted.
FetchNewsReuters ==
    /\ pc = "rnews"
    /\ ReutersFeedCall(Feeds(OrchReutersEntries, MaxOrchEntries))
    /\ IF Len(feed_log) + 1 = NumFeeds
       THEN /\ all_news' = MergeNews(google_news, reuters_news')
            /\ pc' = "social"
       ELSE /\ all_news' = all_news
            /\ pc' = "rnews"
    /\ UNCHANGED <<response, yfinance_data, google_news, fetched_feed>>
    /\ UNCHANGED envVars
    /\ UNCHANGED scoreVars
    /\ UNCHANGED socialVars
    /\ UNCHANGED thesisVars

\* The social fetch made whether or not the bearer is configured.
FetchSocialUnconditional ==
    /\ pc = "social"
    /\ max_results' = 1
    /\ TwitterCall(1, OrchApiResponses, "catalyst")
    /\ UNCHANGED yfinance_data
    /\ UNCHANGED envVars
    /\ UNCHANGED scoreVars
    /\ UNCHANGED newsVars
    /\ UNCHANGED thesisVars

\* app.py:176-179, with the bearer configured
FetchSocial ==
    /\ pc = "social"
    /\ twitter_bearer
    /\ max_results' = 1
    /\ TwitterCall(1, OrchApiResponses, "catalyst")
    /\ UNCHANGED yfinance_data
    /\ UNCHANGED envVars
    /\ UNCHANGED scoreVars
    /\ UNCHANGED newsVars
    /\ UNCHANGED thesisVars

\* app.py:176-177, without the bearer: tweets = []
SkipSocial ==
    /\ pc = "social"
    /\ ~twitter_bearer
    /\ tweets' = <<>>
    /\ pc' = "catalyst"
    /\ UNCHANGED <<calls, response, yfinance_data, max_results, api_response>>
    /\ UNCHANGED envVars
    /\ UNCHANGED scoreVars
    /\ UNCHANGED newsVars
    /\ UNCHANGED thesisVars

\* app.py:184-191
CatalystThesis ==
    /\ pc = "catalyst"
    /\ CatalystCall(Completions(OrchCatalystTexts), "risk")
    /\ UNCHANGED <<yfinance_data, risk_bullets>>
    /\ UNCHANGED envVars
    /\ UNCHANGED scoreVars
    /\ UNCHANGED socialVars
    /\ UNCHANGED newsVars

\* app.py:193-200
RiskThesis ==
    /\ pc = "risk"
    /\ RiskCall(Completions(OrchRiskTexts), "score")
    /\ UNCHANGED <<yfinance_data, catalyst_bullets>>
    /\ UNCHANGED envVars
    /\ UNCHANGED scoreVars
    /\ UNCHANGED socialVars
    /\ UNCHANGED newsVars

\* app.py:202-228
Respond ==
    /\ pc = "score"
    /\ score_trace' = RiskTrace(yfinance_data, yfinance_data.price_change_pct)
    /\ risk_score' = calculate_risk_score(yfinance_data,
                                          yfinance_data.price_change_pct)
    /\ calls' = Append(calls, Call("score", 0, "ok"))
    /\ response' = [status |-> 200, detail |-> <<>>, body |-> <<AnalysisResult>>]
    /\ pc' = "done"
    /\ UNCHANGED yfinance_data
    /\ UNCHANGED envVars
    /\ UNCHANGED socialVars
    /\ UNCHANGED newsVars
    /\ UNCHANGED thesisVars

Next ==
    \/ CheckConfig
    \/ FetchQuote
    \/ FetchNewsGoogle
    \/ FetchNewsReuters
    \/ FetchSocial
    \/ SkipSocial
    \/ CatalystThesis
    \/ RiskThesis
    \/ Respond

Spec == Init /\ [][Next]_vars

----------------------------------------------------------------------------
(* Claims about the request handler *)

Made(op, outcome) ==
    \E i \in 1..Len(calls) : calls[i].op = op /\ calls[i].outcome = outcome

MadeAny(op) == \E i \in 1..Len(calls) : calls[i].op = op

\* C5: in every Analysis Result the merged news list (both sources'
\* items concatenated) is in descending order of publish instant: of two
\* adjacent items the earlier-listed one denotes a later point in time,
\* whatever UTC offsets the feeds wrote.  (Stated here without the
\* strictness, so that two items of the same instant do not count against
\* it: a violation is an item listed before one that was published later.)
C5_MergedNewsDescendingByInstant ==
    response.status = 200 =>
        LET news == response.body[1].news IN
        \A i \in 1..(Len(news) - 1) :
            news[i].published.local - news[i].published.off
                >= news[i + 1].published.local - news[i + 1].published.off

\* C6: if the quote fetch finds an empty price history, the request ends
\* with a 404 response whose message names the ticker, and in that request
\* no news fetch, no social fetch and no completion call is performed.
C6_EmptyHistoryIsNotFound ==
    Made("quote", "empty_history") =>
        /\ pc = "done"
        /\ response.status = 404
        /\ ticker \in Range(response.detail)
        /\ \A i \in 1..Len(calls) :
              calls[i].op \notin {"google_news", "reuters_news", "social",
                                  "catalyst", "risk"}

C6_Witness ==
    /\ ticker = "ZZZZ"
    /\ Made("quote", "empty_history")
    /\ response.status = 404

\* C7: if the completion credential is configured and the quote fetch
\* succeeds, the request always ends with a success response containing a
\* risk score, whatever fails among the news feeds, the social fetch and the
\* two completion calls: a failed news feed or social fetch leaves an empty
\* list (the failed feed adds no item), a failed catalyst generation exactly
\* one bullet with error text and no sources, a failed risk generation
\* exactly one error-text bullet; no such failure is propagated.
C7_BestEffortFailuresAreAbsorbed ==
    (anthropic_api_key /\ Made("quote", "ok")) =>
        /\ response.status \in {0, 200}
        /\ pc = "done" =>
              /\ response.status = 200
              /\ Len(response.body) = 1
              /\ response.body[1].risk_score \in 1..10
        /\ pc \in {"gnews", "rnews", "social", "catalyst", "risk", "score", "done"}
        /\ Made("google_news", "error") => google_news = <<>>
        /\ \A i \in 1..Len(feed_log) :
              feed_log[i].failed => feed_log[i].added = 0
        /\ Made("social", "error") => tweets = <<>>
        /\ Made("catalyst", "error") =>
              /\ Len(catalyst_bullets) = 1
              /\ catalyst_bullets[1].sources = <<>>
              /\ catalyst_bullets[1].text[1] = "Error generating analysis: "
        /\ Made("risk", "error") =>
              /\ Len(risk_bullets) = 1
              /\ risk_bullets[1][1] = "Error generating analysis: "

\* The part of C7 about the request as a whole: with the credential
\* configured and the quote fetched, no failure of a best-effort step is
\* propagated; the handler runs on and answers 200 with a risk score, and a
\* failed completion call leaves exactly one error bullet.
FailuresNotPropagated ==
    (anthropic_api_key /\ Made("quote", "ok")) =>
        /\ response.status \in {0, 200}
        /\ pc = "done" =>
              /\ response.status = 200
              /\ response.body[1].risk_score \in 1..10
        /\ pc \in {"gnews", "rnews", "social", "catalyst", "risk", "score", "done"}
        /\ Made("google_news", "error") => google_news = <<>>
        /\ Made("social", "error") => tweets = <<>>
        /\ Made("catalyst", "error") =>
              /\ Len(catalyst_bullets) = 1
              /\ catalyst_bullets[1].sources = <<>>
        /\ Made("risk", "error") => Len(risk_bullets) = 1

\* C8: if the completion credential is absent the request ends with a 500
\* response whose message names ANTHROPIC_API_KEY, for every ticker (never a
\* 404), and no quote, news, social or completion call is made; if only the
\* social credential is absent the request is not aborted: no social fetch
\* is made and it completes with an empty tweets list.
C8_MissingCredentials ==
    /\ ~anthropic_api_key =>
          /\ calls = <<>>
          /\ pc \in {"start", "done"}
          /\ pc = "done" =>
                /\ response.status = 500
                /\ "ANTHROPIC_API_KEY" \in Range(response.detail)
    /\ (anthropic_api_key /\ ~twitter_bearer) =>
          /\ ~MadeAny("social")
          /\ tweets = <<>>
          /\ (pc = "done" /\ Made("quote", "ok")) =>
                /\ response.status = 200
                /\ response.body[1].tweets = <<>>

\* C8 witness: no completion credential, a ticker without price history,
\* the request ended with the 500 response.
C8_Witness ==
    /\ ~anthropic_api_key
    /\ ticker = "ZZZZ"
    /\ pc = "done"
    /\ response.status = 500
    /\ calls = <<>>

\* C11: the merged news list is deduplicated by link: in every Analysis
\* Result, and in the list handed to the catalyst thesis generator, no two
\* news items have the same link, even when the broad-query source and the
\* curated feeds return the same article.
C11_MergedNewsUniqueLinks ==
    /\ MadeAny("catalyst") =>
          \A i, j \in 1..Len(all_news) :
              all_news[i].link = all_news[j].link => i = j
    /\ response.status = 200 =>
          LET news == response.body[1].news IN
          \A i, j \in 1..Len(news) : news[i].link = news[j].link => i = j

\* The place of an operation in the documented sequence.
C13_Rank(op) ==
    CASE op = "quote" -> 1
      [] op = "google_news" -> 2
      [] op = "reuters_news" -> 3
      [] op = "social" -> 4
      [] op = "catalyst" -> 5
      [] op = "risk" -> 6
      [] op = "score" -> 7
      [] OTHER -> 0

\* C13: in every request the external operations occur in this order, each
\* at most once: quote fetch, broad-query news fetch, curated-feed news
\* fetch, social fetch, catalyst completion call, risk completion call,
\* risk-score computation, response assembly; the social fetch is performed
\* if and only if the social credential is configured, and the risk thesis
\* is generated even when the catalyst generation failed.
C13_OperationsInOrder ==
    /\ \A i \in 1..Len(calls) : C13_Rank(calls[i].op) > 0
    /\ calls # <<>> => calls[1].op = "quote"
    /\ \A i \in 1..(Len(calls) - 1) :
          LET a == C13_Rank(calls[i].op)
              b == C13_Rank(calls[i + 1].op)
          IN  \/ b = a + 1
              \/ (a = 3 /\ b = 5 /\ ~twitter_bearer)
    /\ MadeAny("social") => twitter_bearer
    /\ MadeAny("catalyst") => (MadeAny("social") <=> twitter_bearer)
    /\ (Made("catalyst", "error") /\ pc \in {"score", "done"}) => MadeAny("risk")
    /\ response.status = 200 =>
          /\ calls[Len(calls)].op = "score"
          /\ MadeAny("risk")
    /\ MadeAny("score") => response.status = 200

\* C13 witness: a request without social credential whose catalyst
\* generation failed ran through to the response: six operations, the social
\* fetch skipped, the risk thesis generated.
C13_Witness ==
    /\ pc = "done"
    /\ response.status = 200
    /\ ~twitter_bearer
    /\ Made("catalyst", "error")
    /\ Len(calls) = 6
    /\ calls[5].op = "risk"

\* The beta thresholds of the claim (tenths).
C14_BetaTable(b) ==
    IF b > 25 THEN 2 ELSE IF b > 20 THEN 1 ELSE IF b < 8 THEN -1 ELSE 0

\* The market-cap thresholds of the claim (units of $100M).
C14_MarketCapTable(mc) ==
    IF mc < 10 THEN 3 ELSE IF mc < 50 THEN 2 ELSE IF mc < 200 THEN 1
    ELSE IF mc > MegaCapLimit THEN -2 ELSE IF mc > 1000 THEN -1 ELSE 0

\* C14: in calculate_risk_score a valuation field contributes no adjustment
\* as missing only when it is absent: every present value, 0 included, is
\* scored by its factor's thresholds, so a present beta of 0 contributes -1,
\* a present forward_pe of 0 (non-mega-cap) -1 and a present market_cap of 0
\* +3.
C14_PresentValuesAreScored ==
    Scored =>
        /\ yfinance_data.beta # None =>
              score_trace[4] - score_trace[3]
                  = C14_BetaTable(yfinance_data.beta[1])
        /\ yfinance_data.forward_pe # None =>
              score_trace[2] - score_trace[1]
                  = IF /\ yfinance_data.market_cap # None
                       /\ yfinance_data.market_cap[1] > MegaCapLimit
                    THEN C3_MegaTable(yfinance_data.forward_pe[1])
                    ELSE C3_NonMegaTable(yfinance_data.forward_pe[1])
        /\ yfinance_data.market_cap # None =>
              score_trace[6] - score_trace[5]
                  = C14_MarketCapTable(yfinance_data.market_cap[1])

====
